---- MODULE Spec2Model ----
(***************************************************************************)
(* Model of math32.Line3 (src/math32/line3.go): a 3D line segment held as  *)
(* two Vector3 fields, with the pointer-taking operations of the Go code.  *)
(*                                                                         *)
(* Memory is a map from addresses to Vector3 values.  A Line3 object "L"   *)
(* owns the cells "Ls" (its start field) and "Le" (its end field); a       *)
(* second object "K" owns "Ks" and "Ke"; "u" and "v" are vectors of the    *)
(* caller.  A *Vector3 argument is an address or NIL, so that aliasing     *)
(* (passing l.Start() as a target or as an argument of Set) is a case of   *)
(* the model.                                                              *)
(*                                                                         *)
(* A float32 is modelled by the dyadic rational it denotes: <<n, e>> is    *)
(* n / 2^e, kept normalised (n odd or e = 0).  Within the magnitude bounds *)
(* of the model every sum, difference and product below is exactly         *)
(* representable in float32, so the float32 result is the exact one; the   *)
(* square root is rounded to the 24-bit significand of float32.            *)
(***************************************************************************)
EXTENDS Integers, Sequences, FiniteSets, TLC

VARIABLES mem, h, cloned, last, steps

vars == <<mem, h, cloned, last, steps>>

\* ------------------------------------------------------------------ bounds
\* Number of operations in one run.
MaxSteps == 1
\* Largest numerator magnitude of a coordinate kept in memory.
MaxNum == 8
\* Largest binary exponent of the denominator of a coordinate kept in memory.
MaxExp == 2

\* ------------------------------------------------------- float32 (dyadic)
RECURSIVE Pow2(_)
Pow2(k) == IF k = 0 THEN 1 ELSE 2 * Pow2(k - 1)

RECURSIVE Norm(_, _)
Norm(n, e) == IF e > 0 /\ n % 2 = 0 THEN Norm(n \div 2, e - 1) ELSE <<n, e>>

Abs(n) == IF n < 0 THEN -n ELSE n

MaxOf(a, b) == IF a < b THEN b ELSE a

FInt(n) == <<n, 0>>

FZero == FInt(0)

FAdd(a, b) ==
    LET e == MaxOf(a[2], b[2])
    IN  Norm(a[1] * Pow2(e - a[2]) + b[1] * Pow2(e - b[2]), e)

FSub(a, b) ==
    LET e == MaxOf(a[2], b[2])
    IN  Norm(a[1] * Pow2(e - a[2]) - b[1] * Pow2(e - b[2]), e)

FMul(a, b) == Norm(a[1] * b[1], a[2] + b[2])

RECURSIVE Log2(_)
Log2(n) == IF n <= 1 THEN 0 ELSE 1 + Log2(n \div 2)

\* a / b for b a power of two (the only divisors the model's matrices give)
FDiv(a, b) ==
    Norm((IF b[1] < 0 THEN -1 ELSE 1) * a[1] * Pow2(b[2]), a[2] + Log2(Abs(b[1])))

\* The float32 constant 0.5
FHalf == <<1, 1>>

\* ----------------------------------------------------------------- Vector3
Vec(x, y, z) == <<FInt(x), FInt(y), FInt(z)>>

VZero == Vec(0, 0, 0)

\* v.AddVectors(a, b): v = a + b, componentwise
AddVectors(a, b) == <<FAdd(a[1], b[1]), FAdd(a[2], b[2]), FAdd(a[3], b[3])>>

\* v.SubVectors(a, b): v = a - b, componentwise
SubVectors(a, b) == <<FSub(a[1], b[1]), FSub(a[2], b[2]), FSub(a[3], b[3])>>

\* v.MultiplyScalar(s)
MultiplyScalar(a, s) == <<FMul(a[1], s), FMul(a[2], s), FMul(a[3], s)>>

\* v.Equals(other): exact componentwise equality
VecEquals(a, b) == a[1] = b[1] /\ a[2] = b[2] /\ a[3] = b[3]

\* v.DistanceToSquared(other)
DistanceToSquared(a, b) ==
    LET d == SubVectors(a, b)
    IN  FAdd(FAdd(FMul(d[1], d[1]), FMul(d[2], d[2])), FMul(d[3], d[3]))

\* The width of the float32 significand.
SigBits == 24

\* Floor of the square root of a natural number.
RECURSIVE ISqrtFrom(_, _)
ISqrtFrom(a, p) == IF (p + 1) * (p + 1) > a THEN p ELSE ISqrtFrom(a, p + 1)

ISqrt(a) == ISqrtFrom(a, 0)

\* Binary digits of a square root, one per step: p is the floor of the root
\* of a * 4^f and r the remainder a * 4^f - p^2; stop when p has SigBits + 1
\* bits (the significand and the rounding bit).
RECURSIVE RootDigits(_, _, _)
RootDigits(p, r, f) ==
    IF p >= Pow2(SigBits) THEN <<p, r, f>>
    ELSE IF 4 * r >= 4 * p + 1
         THEN RootDigits(2 * p + 1, 4 * r - (4 * p + 1), f + 1)
         ELSE RootDigits(2 * p, 4 * r, f + 1)

\* Sqrt of a float32 (math32.Sqrt): the square root rounded to the nearest
\* float32, ties to even.  x = a / 4^q with a = n or 2n.
Sqrt32(x) ==
    IF x[1] <= 0 THEN FZero
    ELSE LET q  == (x[2] + 1) \div 2
             a  == x[1] * Pow2(2 * q - x[2])
             p0 == ISqrt(a)
             d  == RootDigits(p0, a - p0 * p0, 0)
             m0 == d[1] \div 2
             up == d[1] % 2 = 1 /\ (d[2] > 0 \/ m0 % 2 = 1)
         IN  Norm(IF up THEN m0 + 1 ELSE m0, d[3] - 1 + q)

\* v.DistanceTo(other)
DistanceTo(a, b) == Sqrt32(DistanceToSquared(a, b))

\* A 4x4 matrix is its 16 entries in column-major order, as Matrix4 stores
\* them; the entries of the model's matrices are integers.
Mat(r1, r2, r3, r4) ==
    <<r1[1], r2[1], r3[1], r4[1], r1[2], r2[2], r3[2], r4[2],
      r1[3], r2[3], r3[3], r4[3], r1[4], r2[4], r3[4], r4[4]>>

Identity == Mat(<<1, 0, 0, 0>>, <<0, 1, 0, 0>>, <<0, 0, 1, 0>>, <<0, 0, 0, 1>>)

Matrices ==
    { Identity,
      \* translation by (1, 0, -1)
      Mat(<<1, 0, 0, 1>>, <<0, 1, 0, 0>>, <<0, 0, 1, -1>>, <<0, 0, 0, 1>>),
      \* scaling by 2
      Mat(<<2, 0, 0, 0>>, <<0, 2, 0, 0>>, <<0, 0, 2, 0>>, <<0, 0, 0, 1>>),
      \* rotation by a quarter turn about z
      Mat(<<0, -1, 0, 0>>, <<1, 0, 0, 0>>, <<0, 0, 1, 0>>, <<0, 0, 0, 1>>),
      \* homogeneous coordinate w = 2
      Mat(<<1, 0, 0, 0>>, <<0, 1, 0, 0>>, <<0, 0, 1, 0>>, <<0, 0, 0, 2>>) }

\* Row i of M times (x, y, z, 1)
Row(M, i, a) ==
    FAdd(FAdd(FAdd(FMul(FInt(M[i]), a[1]), FMul(FInt(M[i + 4]), a[2])),
              FMul(FInt(M[i + 8]), a[3])), FInt(M[i + 12]))

\* v.ApplyMatrix4(M): the homogeneous transform of v, divided by w.  All
\* three components are computed from the old v before any is stored.
VecApplyMatrix4(a, M) ==
    LET w == Row(M, 4, a)
    IN  <<FDiv(Row(M, 1, a), w), FDiv(Row(M, 2, a), w), FDiv(Row(M, 3, a), w)>>

\* ------------------------------------------------------------------ memory
NIL == "nil"

LineAddrs == {"Ls", "Le", "Ks", "Ke"}

Addr == LineAddrs \cup {"u", "v"}

\* &o.start and &o.end of the Line3 object o
StartOf(o) == IF o = "L" THEN "Ls" ELSE "Ks"

EndOf(o) == IF o = "L" THEN "Le" ELSE "Ke"

Fields(o) == {StartOf(o), EndOf(o)}

\* The points the caller's inputs are drawn from.
Points == {Vec(0, 0, 0), Vec(2, 0, 0), Vec(1, 1, 0)}

\* The values of the caller's vectors u and v at the start: two different
\* points (which of the two is u is immaterial, the operations take either).
PointPairs ==
    {<<Vec(0, 0, 0), Vec(2, 0, 0)>>, <<Vec(0, 0, 0), Vec(1, 1, 0)>>,
     <<Vec(2, 0, 0), Vec(1, 1, 0)>>}

InRange(x) == Abs(x[1]) <= MaxNum /\ x[2] <= MaxExp

Bounded(m) == \A a \in Addr : \A i \in 1..3 : InRange(m[a][i])

\* -------------------------------------------------------------- operations
\* A heap with one more cell, `extra`, holding x: a vector allocated by
\* NewVector3 or a by-value parameter of a callback.
With(m, extra, x) == [a \in Addr \cup {extra} |-> IF a = extra THEN x ELSE m[a]]

\* The heap without the extra cell.
Heap(m) == [a \in Addr |-> m[a]]

\* Set with an omitted argument resetting the endpoint to zero.
Set_ZeroOnNil(m, o, start, end) ==
    LET m1 == [m EXCEPT ![StartOf(o)] = IF start # NIL THEN m[start] ELSE VZero]
        m2 == [m1 EXCEPT ![EndOf(o)] = IF end # NIL THEN m1[end] ELSE VZero]
    IN  [mem |-> m2, obj |-> o]

\* Line3.Set: the two assignments in order, then return l.
\* mem: the heap afterwards; obj: the Line3 returned.
Set(m, o, start, end) ==
    LET m1 == IF start # NIL THEN [m EXCEPT ![StartOf(o)] = m[start]] ELSE m
        m2 == IF end # NIL THEN [m1 EXCEPT ![EndOf(o)] = m1[end]] ELSE m1
    IN  [mem |-> m2, obj |-> o]

\* NewLine3: l := new(Line3), zeroed, at object o; l.Set(start, end); return l
NewLine3(m, o, start, end) ==
    LET m0 == [m EXCEPT ![StartOf(o)] = VZero, ![EndOf(o)] = VZero]
    IN  [mem |-> Set(m0, o, start, end).mem, obj |-> o]

\* Line3.Copy: *l = *other; return l
Copy(m, o, other) ==
    [mem |-> [m EXCEPT ![StartOf(o)] = m[StartOf(other)],
                       ![EndOf(o)] = m[EndOf(other)]],
     obj |-> o]

\* Line3.Start, Line3.End
Start(o) == StartOf(o)

End(o) == EndOf(o)

\* A callback is what it does on its first and on its second call: the value
\* it stores through the vertex it is given (none: <<>>) and what it returns.
Callbacks ==
    [stop : {<<FALSE, FALSE>>, <<FALSE, TRUE>>, <<TRUE, FALSE>>},
     wr : {<<<<>>, <<>>>>, <<<<Vec(1, 2, 3)>>, <<Vec(3, 2, 1)>>>>}]

\* The k-th call of cb on the vertex at address a
CbStore(m, a, cb, k) == IF cb.wr[k] = <<>> THEN m ELSE [m EXCEPT ![a] = cb.wr[k][1]]

\* OperateOnVertices ignoring what the first call returns.
OperateOnVertices_NoStop(m, o, cb) ==
    LET m1 == CbStore(m, StartOf(o), cb, 1)
        m2 == CbStore(m1, EndOf(o), cb, 2)
    IN  [mem |-> m2, calls |-> <<StartOf(o), EndOf(o)>>,
         seen |-> <<m[StartOf(o)], m1[EndOf(o)]>>]

\* Line3.OperateOnVertices: cb(&t.start), then cb(&t.end) unless stopped.
\* calls: the fields visited, in order; seen: the values cb was given.
OperateOnVertices(m, o, cb) ==
    LET m1 == CbStore(m, StartOf(o), cb, 1)
        m2 == CbStore(m1, EndOf(o), cb, 2)
    IN  IF cb.stop[1]
        THEN [mem |-> m1, calls |-> <<StartOf(o)>>, seen |-> <<m[StartOf(o)]>>]
        ELSE [mem |-> m2, calls |-> <<StartOf(o), EndOf(o)>>,
              seen |-> <<m[StartOf(o)], m1[EndOf(o)]>>]

\* ReadVertices handing the callback the fields themselves.
ReadVertices_ByRef(m, o, cb) ==
    LET m1 == CbStore(m, StartOf(o), cb, 1)
        m2 == CbStore(m1, EndOf(o), cb, 2)
    IN  IF cb.stop[1]
        THEN [mem |-> m1, calls |-> <<StartOf(o)>>, seen |-> <<m[StartOf(o)]>>]
        ELSE [mem |-> m2, calls |-> <<StartOf(o), EndOf(o)>>,
              seen |-> <<m[StartOf(o)], m1[EndOf(o)]>>]

\* Line3.ReadVertices: cb(t.start), then cb(t.end) unless stopped; the
\* vertex is a by-value parameter, the cell "arg" of the callback's frame.
ReadVertices(m, o, cb) ==
    LET x0 == With(m, "arg", m[StartOf(o)])
        x1 == CbStore(x0, "arg", cb, 1)
        y0 == With(Heap(x1), "arg", x1[EndOf(o)])
        y1 == CbStore(y0, "arg", cb, 2)
    IN  IF cb.stop[1]
        THEN [mem |-> Heap(x1), calls |-> <<StartOf(o)>>, seen |-> <<x0["arg"]>>]
        ELSE [mem |-> Heap(y1), calls |-> <<StartOf(o), EndOf(o)>>,
              seen |-> <<x0["arg"], y0["arg"]>>]

\* Center accumulating in l.start and copying the result out.
Center_InPlace(m, o, target) ==
    LET r  == IF target = NIL THEN "new" ELSE target
        m0 == With(m, "new", VZero)
        m1 == [m0 EXCEPT ![StartOf(o)] = AddVectors(m0[StartOf(o)], m0[EndOf(o)])]
        m2 == [m1 EXCEPT ![StartOf(o)] = MultiplyScalar(m1[StartOf(o)], FHalf)]
        m3 == [m2 EXCEPT ![r] = m2[StartOf(o)]]
    IN  [mem |-> Heap(m3), ptr |-> r, val |-> m3[r]]

\* Line3.Center: result.AddVectors(&l.start, &l.end).MultiplyScalar(0.5),
\* result being the target or NewVector3(0, 0, 0) (the cell "new").
Center(m, o, target) ==
    LET r  == IF target = NIL THEN "new" ELSE target
        m0 == With(m, "new", VZero)
        m1 == [m0 EXCEPT ![r] = AddVectors(m0[StartOf(o)], m0[EndOf(o)])]
        m2 == [m1 EXCEPT ![r] = MultiplyScalar(m1[r], FHalf)]
    IN  [mem |-> Heap(m2), ptr |-> r, val |-> m2[r]]

\* Delta with the operands swapped: start - end.
Delta_Reversed(m, o, target) ==
    LET r  == IF target = NIL THEN "new" ELSE target
        m0 == With(m, "new", VZero)
        m1 == [m0 EXCEPT ![r] = SubVectors(m0[StartOf(o)], m0[EndOf(o)])]
    IN  [mem |-> Heap(m1), ptr |-> r, val |-> m1[r]]

\* Line3.Delta: result.SubVectors(&l.end, &l.start)
Delta(m, o, target) ==
    LET r  == IF target = NIL THEN "new" ELSE target
        m0 == With(m, "new", VZero)
        m1 == [m0 EXCEPT ![r] = SubVectors(m0[EndOf(o)], m0[StartOf(o)])]
    IN  [mem |-> Heap(m1), ptr |-> r, val |-> m1[r]]

\* Line3.DistanceSq
DistanceSq(m, o) == DistanceToSquared(m[StartOf(o)], m[EndOf(o)])

\* Distance calling DistanceToSquared instead of DistanceTo.
Distance_NoSqrt(m, o) == DistanceToSquared(m[StartOf(o)], m[EndOf(o)])

\* Line3.Distance
Distance(m, o) == DistanceTo(m[StartOf(o)], m[EndOf(o)])

\* ApplyMatrix4 transforming start twice and end not at all.
ApplyMatrix4_StartTwice(m, o, M) ==
    LET m1 == [m EXCEPT ![StartOf(o)] = VecApplyMatrix4(m[StartOf(o)], M)]
        m2 == [m1 EXCEPT ![StartOf(o)] = VecApplyMatrix4(m1[StartOf(o)], M)]
    IN  [mem |-> m2, obj |-> o]

\* Line3.ApplyMatrix4: l.start.ApplyMatrix4(matrix), then l.end.ApplyMatrix4(matrix)
ApplyMatrix4(m, o, M) ==
    LET m1 == [m EXCEPT ![StartOf(o)] = VecApplyMatrix4(m[StartOf(o)], M)]
        m2 == [m1 EXCEPT ![EndOf(o)] = VecApplyMatrix4(m1[EndOf(o)], M)]
    IN  [mem |-> m2, obj |-> o]

\* Equals comparing the start points only.
Equals_StartOnly(m, o, other) == VecEquals(m[StartOf(other)], m[StartOf(o)])

\* Line3.Equals
Equals(m, o, other) ==
    /\ VecEquals(m[StartOf(other)], m[StartOf(o)])
    /\ VecEquals(m[EndOf(other)], m[EndOf(o)])

\* Clone returning the receiver itself.
Clone_Shared(m, o) == [mem |-> m, obj |-> o]

\* Line3.Clone: NewLine3(&l.start, &l.end); the new object is "K"
Clone(m, o) == NewLine3(m, "K", StartOf(o), EndOf(o))

\* ------------------------------------------------------------------- state
\* mem: the heap.  h: the object the caller's second handle k refers to
\* ("none" while k is unset).  cloned: k was set by l.Clone().  last: the record of the last operation: what
\* was called, through which handle, with what, on which heap, and what it
\* returned.  steps: the number of operations so far.
NoCb == [stop |-> <<FALSE, FALSE>>, wr |-> <<<<>>, <<>>>>]

Blank0 ==
    [op |-> "none", via |-> "l", recv |-> "L", a1 |-> NIL, a2 |-> NIL,
     mat |-> Identity, cb |-> NoCb, pre |-> <<>>, preH |-> "none", ptr |-> NIL,
     obj |-> "none", val |-> VZero, flag |-> FALSE, num |-> FZero,
     calls |-> <<>>, seen |-> <<>>]

Blank == [Blank0 EXCEPT !.pre = mem, !.preH = h]

CallerPtrs == {NIL, "u", "v"}

\* The state after the caller's set-up: l := NewLine3(s, e), s and e each
\* nil or a vector of the caller, and then either nothing more, or
\* k := l.Clone(), or k := NewLine3(&v, &u).  last is the last of these.
Init ==
    \E uv \in PointPairs, s \in CallerPtrs, e \in CallerPtrs :
        LET m0 == [a \in Addr |-> IF a = "u" THEN uv[1]
                                  ELSE IF a = "v" THEN uv[2] ELSE VZero]
            l  == NewLine3(m0, "L", s, e)
            c  == Clone(l.mem, l.obj)
            k  == NewLine3(l.mem, "K", "v", "u")
        IN  /\ steps = 0
            /\ \/ /\ mem = l.mem
                  /\ h = "none"
                  /\ cloned = FALSE
                  /\ last = [Blank0 EXCEPT !.op = "NewLine3", !.a1 = s, !.a2 = e,
                                           !.pre = m0, !.obj = l.obj]
               \/ /\ mem = c.mem
                  /\ h = c.obj
                  /\ cloned = TRUE
                  /\ last = [Blank0 EXCEPT !.op = "Clone", !.pre = l.mem,
                                           !.obj = c.obj]
               \/ /\ mem = k.mem
                  /\ h = k.obj
                  /\ cloned = FALSE
                  /\ last = [Blank0 EXCEPT !.op = "NewLine3", !.via = "k",
                                           !.recv = "K", !.a1 = "v", !.a2 = "u",
                                           !.pre = l.mem, !.obj = k.obj]

\* The caller's handles (l, and k once it is set), the object of each, and
\* the addresses the caller can pass: nil, its own vectors, and the fields
\* of its lines (which Start() and End() hand out).
Handles == IF h = "none" THEN {"l"} ELSE {"l", "k"}

Obj(hd) == IF hd = "l" THEN "L" ELSE h

Ptrs == CallerPtrs \cup UNION {Fields(Obj(hd)) : hd \in Handles}

\* What every operation does besides its own effect.
Step(m) ==
    /\ steps < MaxSteps
    /\ Bounded(m)
    /\ mem' = m
    /\ steps' = steps + 1

\* Set takes nil, a vector of the caller, or a field of the receiver itself.
DoSet ==
    \E hd \in Handles :
      \E s \in CallerPtrs \cup Fields(Obj(hd)), e \in CallerPtrs \cup Fields(Obj(hd)) :
        LET r == Set(mem, Obj(hd), s, e)
        IN  /\ Step(r.mem)
            /\ last' = [Blank EXCEPT !.op = "Set", !.via = hd, !.recv = Obj(hd),
                                     !.a1 = s, !.a2 = e, !.obj = r.obj]
            /\ UNCHANGED <<h, cloned>>

DoCopy ==
    \E hd \in Handles, other \in Handles :
        LET r == Copy(mem, Obj(hd), Obj(other))
        IN  /\ Step(r.mem)
            /\ last' = [Blank EXCEPT !.op = "Copy", !.via = hd, !.recv = Obj(hd),
                                     !.a1 = Obj(other), !.obj = r.obj]
            /\ UNCHANGED <<h, cloned>>

DoStart ==
    \E hd \in Handles :
        /\ Step(mem)
        /\ last' = [Blank EXCEPT !.op = "Start", !.via = hd, !.recv = Obj(hd),
                                 !.ptr = Start(Obj(hd))]
        /\ UNCHANGED <<h, cloned>>

DoEnd ==
    \E hd \in Handles :
        /\ Step(mem)
        /\ last' = [Blank EXCEPT !.op = "End", !.via = hd, !.recv = Obj(hd),
                                 !.ptr = End(Obj(hd))]
        /\ UNCHANGED <<h, cloned>>

\* The caller stores a point through a pointer it holds: one of its own
\* vectors, or what Start() or End() returned.
DoWrite ==
    \E a \in Ptrs \ {NIL}, p \in Points :
        /\ Step([mem EXCEPT ![a] = p])
        /\ last' = [Blank EXCEPT !.op = "Write", !.a1 = a, !.val = p]
        /\ UNCHANGED <<h, cloned>>

DoOperateOnVertices ==
    \E hd \in Handles, cb \in Callbacks :
        LET r == OperateOnVertices(mem, Obj(hd), cb)
        IN  /\ Step(r.mem)
            /\ last' = [Blank EXCEPT !.op = "OperateOnVertices", !.via = hd,
                                     !.recv = Obj(hd), !.cb = cb,
                                     !.calls = r.calls, !.seen = r.seen]
            /\ UNCHANGED <<h, cloned>>

DoReadVertices ==
    \E hd \in Handles, cb \in Callbacks :
        LET r == ReadVertices(mem, Obj(hd), cb)
        IN  /\ Step(r.mem)
            /\ last' = [Blank EXCEPT !.op = "ReadVertices", !.via = hd,
                                     !.recv = Obj(hd), !.cb = cb,
                                     !.calls = r.calls, !.seen = r.seen]
            /\ UNCHANGED <<h, cloned>>

DoCenter ==
    \E hd \in Handles, t \in Ptrs :
        LET r == Center(mem, Obj(hd), t)
        IN  /\ Step(r.mem)
            /\ last' = [Blank EXCEPT !.op = "Center", !.via = hd, !.recv = Obj(hd),
                                     !.a1 = t, !.ptr = r.ptr, !.val = r.val]
            /\ UNCHANGED <<h, cloned>>

DoDelta ==
    \E hd \in Handles, t \in Ptrs :
        LET r == Delta(mem, Obj(hd), t)
        IN  /\ Step(r.mem)
            /\ last' = [Blank EXCEPT !.op = "Delta", !.via = hd, !.recv = Obj(hd),
                                     !.a1 = t, !.ptr = r.ptr, !.val = r.val]
            /\ UNCHANGED <<h, cloned>>

DoDistanceSq ==
    \E hd \in Handles :
        /\ Step(mem)
        /\ last' = [Blank EXCEPT !.op = "DistanceSq", !.via = hd, !.recv = Obj(hd),
                                 !.num = DistanceSq(mem, Obj(hd))]
        /\ UNCHANGED <<h, cloned>>

DoDistance ==
    \E hd \in Handles :
        /\ Step(mem)
        /\ last' = [Blank EXCEPT !.op = "Distance", !.via = hd, !.recv = Obj(hd),
                                 !.num = Distance(mem, Obj(hd))]
        /\ UNCHANGED <<h, cloned>>

DoApplyMatrix4 ==
    \E hd \in Handles, M \in Matrices :
        LET r == ApplyMatrix4(mem, Obj(hd), M)
        IN  /\ Step(r.mem)
            /\ last' = [Blank EXCEPT !.op = "ApplyMatrix4", !.via = hd,
                                     !.recv = Obj(hd), !.mat = M, !.obj = r.obj]
            /\ UNCHANGED <<h, cloned>>

DoEquals ==
    \E hd \in Handles, other \in Handles :
        /\ Step(mem)
        /\ last' = [Blank EXCEPT !.op = "Equals", !.via = hd, !.recv = Obj(hd),
                                 !.a1 = Obj(other),
                                 !.flag = Equals(mem, Obj(hd), Obj(other))]
        /\ UNCHANGED <<h, cloned>>

\* k := l.Clone()
DoClone ==
    LET r == Clone(mem, "L")
    IN  /\ Step(r.mem)
        /\ h' = r.obj
        /\ cloned' = TRUE
        /\ last' = [Blank EXCEPT !.op = "Clone", !.obj = r.obj]

Next ==
    \/ DoSet
    \/ DoCopy
    \/ DoStart
    \/ DoEnd
    \/ DoWrite
    \/ DoOperateOnVertices
    \/ DoReadVertices
    \/ DoCenter
    \/ DoDelta
    \/ DoDistanceSq
    \/ DoDistance
    \/ DoApplyMatrix4
    \/ DoEquals
    \/ DoClone

Spec == Init /\ [][Next]_vars

\* ------------------------------------------------------------- properties
\* The properties are stated on the record of the last operation: pre is the
\* heap it started from, mem the heap it left.
Same(a) == mem[a] = last.pre[a]

SameLine(o) == Same(StartOf(o)) /\ Same(EndOf(o))

PreStart == last.pre[StartOf(last.recv)]

PreEnd == last.pre[EndOf(last.recv)]

\* C1: OperateOnVertices calls the callback on start and then, only if that
\* call returned false, on end; never more than once on either.
C1_VisitOrder ==
    last.op = "OperateOnVertices" =>
        last.calls = IF last.cb.stop[1]
                     THEN <<StartOf(last.recv)>>
                     ELSE <<StartOf(last.recv), EndOf(last.recv)>>

C1_Witness ==
    /\ last.op = "OperateOnVertices"
    /\ last.cb.stop[1]
    /\ Len(last.calls) = 1
    /\ last.cb.wr[1] # <<>>
    /\ mem[StartOf(last.recv)] = last.cb.wr[1][1]

\* The operations the caller makes on the line of handle hd: the mutators
\* called through hd, and stores through what its Start() or End() returned.
MutationOf(hd) ==
    \/ last.op \in {"Set", "Copy", "ApplyMatrix4", "OperateOnVertices"} /\ last.via = hd
    \/ last.op = "Write" /\ last.a1 \in Fields(Obj(hd))

\* C2: Clone returns a new line equal to the original and leaves the
\* original as it was; afterwards a mutation of the clone leaves the
\* original's start and end unchanged, and a mutation of the original
\* leaves the clone's unchanged.
C2_CloneIndependent ==
    /\ last.op = "Clone" =>
          /\ h = last.obj
          /\ last.obj \notin {"none", "L"}
          /\ mem[StartOf(last.obj)] = mem["Ls"]
          /\ mem[EndOf(last.obj)] = mem["Le"]
          /\ SameLine("L")
    /\ (cloned /\ last.preH = h /\ MutationOf("k")) => SameLine("L")
    /\ (cloned /\ last.preH = h /\ MutationOf("l")) => SameLine(h)

C2_Witness ==
    /\ cloned
    /\ last.preH = h
    /\ last.op = "ApplyMatrix4"
    /\ last.via = "k"
    /\ last.pre[StartOf(h)] = last.pre["Ls"]
    /\ last.pre[EndOf(h)] = last.pre["Le"]
    /\ ~Same(StartOf(h))
    /\ ~Same(EndOf(h))

\* C3: Set leaves start as it is when its first argument is nil and end as
\* it is when its second argument is nil, and returns its receiver.
C3_SetOmitted ==
    last.op = "Set" =>
        /\ last.a1 = NIL => Same(StartOf(last.recv))
        /\ last.a2 = NIL => Same(EndOf(last.recv))
        /\ last.obj = last.recv

C3_Witness ==
    /\ last.op = "Set"
    /\ last.a1 = NIL
    /\ last.a2 = NIL
    /\ last.recv = "L"
    /\ PreStart = Vec(2, 0, 0)
    /\ PreEnd = Vec(1, 1, 0)
    /\ mem["Ls"] = Vec(2, 0, 0)
    /\ mem["Le"] = Vec(1, 1, 0)

\* C4 as claimed: Center and Delta leave the line's start and end as they
\* were, whatever the target.
C4_NeverMutates ==
    last.op \in {"Center", "Delta"} => SameLine(last.recv)

\* C4 as amended: Center and Delta leave the line's start and end as they
\* were when the target is nil or a vector that is not an endpoint of the
\* line; given one of the line's own endpoints as the target they store the
\* result in that endpoint and leave the other one as it was.
C4_PureUnlessAliased ==
    last.op \in {"Center", "Delta"} =>
        /\ last.a1 \notin Fields(last.recv) => SameLine(last.recv)
        /\ last.a1 = StartOf(last.recv) =>
              mem[StartOf(last.recv)] = last.val /\ Same(EndOf(last.recv))
        /\ last.a1 = EndOf(last.recv) =>
              mem[EndOf(last.recv)] = last.val /\ Same(StartOf(last.recv))

C4_Witness ==
    /\ last.op = "Center"
    /\ last.a1 = "v"
    /\ ~Same("v")
    /\ PreStart # PreEnd
    /\ SameLine(last.recv)

\* C5: Delta returns end - start and Center returns (start + end) / 2,
\* componentwise, of the line as it was at the call; a target that is given
\* holds the result afterwards and is what is returned; with no target the
\* result is a new vector and the heap is as it was.
C5_CenterDelta ==
    /\ last.op = "Center" =>
          \A i \in 1..3 : FAdd(last.val[i], last.val[i]) = FAdd(PreStart[i], PreEnd[i])
    /\ last.op = "Delta" =>
          \A i \in 1..3 : FAdd(PreStart[i], last.val[i]) = PreEnd[i]
    /\ last.op \in {"Center", "Delta"} =>
          IF last.a1 = NIL
          THEN last.ptr \notin Addr /\ mem = last.pre
          ELSE last.ptr = last.a1 /\ mem[last.a1] = last.val

C5_Witness ==
    /\ last.op = "Center"
    /\ last.a1 = "v"
    /\ PreStart = Vec(0, 0, 0)
    /\ PreEnd = Vec(2, 0, 0)
    /\ last.val = Vec(1, 0, 0)
    /\ mem["v"] = Vec(1, 0, 0)
    /\ last.pre["v"] # Vec(1, 0, 0)

\* C6: Equals is true exactly when the two starts are equal and the two ends
\* are equal; a line and its reversal, start # end, are not equal; Equals
\* changes nothing.
C6_Equals ==
    last.op = "Equals" =>
        LET os == last.pre[StartOf(last.a1)]
            oe == last.pre[EndOf(last.a1)]
        IN  /\ last.flag <=> (PreStart = os /\ PreEnd = oe)
            /\ (PreStart = oe /\ PreEnd = os /\ PreStart # PreEnd) => ~last.flag
            /\ mem = last.pre

C6_Witness ==
    /\ last.op = "Equals"
    /\ last.a1 # last.recv
    /\ PreStart = last.pre[EndOf(last.a1)]
    /\ PreEnd = last.pre[StartOf(last.a1)]
    /\ PreStart # PreEnd
    /\ ~last.flag

\* Exact arithmetic on naturals below 2^55, as two limbs <<high, low>> of
\* 24 bits: the value is high * 2^24 + low.
Limb == Pow2(SigBits)

HalfLimb == Pow2(SigBits \div 2)

\* t * t for t < 2^26
SqLimbs(t) ==
    LET hi  == t \div HalfLimb
        lo  == t % HalfLimb
        c   == 2 * hi * lo
        low == (c % HalfLimb) * HalfLimb + lo * lo
    IN  <<hi * hi + c \div HalfLimb + low \div Limb, low % Limb>>

\* n * 2^t
ShlLimbs(n, t) ==
    IF t >= SigBits THEN <<n * Pow2(t - SigBits), 0>>
    ELSE <<n \div Pow2(SigBits - t), (n % Pow2(SigBits - t)) * Pow2(t)>>

LimbLeq(a, b) == a[1] < b[1] \/ (a[1] = b[1] /\ a[2] <= b[2])

BitLen(n) == IF n = 0 THEN 0 ELSE 1 + Log2(n)

\* d * d in float32, d >= 0: the exact square of the significand rounded to
\* SigBits bits, ties to even.
Sq32(d) ==
    LET sq   == SqLimbs(d[1])
        b    == BitLen(sq[1])
        keep == sq[1] * Pow2(SigBits - b) + sq[2] \div Pow2(b)
        rem  == sq[2] % Pow2(b)
        up   == 2 * rem > Pow2(b) \/ (2 * rem = Pow2(b) /\ keep % 2 = 1)
        m    == IF up THEN keep + 1 ELSE keep
    IN  IF sq[1] = 0 THEN Norm(sq[2], 2 * d[2])
        ELSE IF 2 * d[2] >= b THEN Norm(m, 2 * d[2] - b)
        ELSE <<m * Pow2(b - 2 * d[2]), 0>>

\* d is a float32 nearest to the square root of x > 0: with d = M / 2^K, M
\* of SigBits bits, (M - 1/2)^2 <= x * 4^K <= (M + 1/2)^2.
NearestRoot(d, x) ==
    /\ d[1] > 0
    /\ LET j == SigBits - BitLen(d[1])
           M == d[1] * Pow2(j)
           N == ShlLimbs(x[1], 2 * (d[2] + j) + 2 - x[2])
       IN  LimbLeq(SqLimbs(2 * M - 1), N) /\ LimbLeq(N, SqLimbs(2 * M + 1))

\* x is the square of a dyadic rational
IsSquare(x) == x[2] % 2 = 0 /\ ISqrt(x[1]) * ISqrt(x[1]) = x[1]

\* The sum of the squared componentwise differences of the line's start and
\* end as they were at the call.
SumSq ==
    LET d(i) == FSub(PreEnd[i], PreStart[i])
    IN  FAdd(FAdd(FMul(d(1), d(1)), FMul(d(2), d(2))), FMul(d(3), d(3)))

\* C7 as claimed: DistanceSq is the sum of the squared componentwise
\* differences, Distance() * Distance() equals DistanceSq(), and both are 0
\* for a line whose start equals its end.
C7_SquareOfDistance ==
    /\ last.op = "DistanceSq" => last.num = SumSq
    /\ last.op = "Distance" => Sq32(last.num) = SumSq
    /\ (last.op \in {"DistanceSq", "Distance"} /\ PreStart = PreEnd) =>
          last.num = FZero

\* C7 as amended: DistanceSq is the sum of the squared componentwise
\* differences; Distance is its square root rounded to the nearest float32,
\* so that Distance() * Distance() equals DistanceSq() whenever DistanceSq()
\* is the square of a float32; both are 0 for a line whose start equals its
\* end.
C7_RoundedRoot ==
    /\ last.op = "DistanceSq" => last.num = SumSq
    /\ last.op = "Distance" =>
          IF SumSq = FZero THEN last.num = FZero
          ELSE /\ NearestRoot(last.num, SumSq)
               /\ IsSquare(SumSq) =>
                     FMul(last.num, last.num) = SumSq /\ Sq32(last.num) = SumSq
    /\ (last.op \in {"DistanceSq", "Distance"} /\ PreStart = PreEnd) =>
          last.num = FZero

C7_Witness ==
    /\ last.op = "Distance"
    /\ PreStart = Vec(0, 0, 0)
    /\ PreEnd = Vec(1, 1, 0)
    /\ SumSq = FInt(2)
    /\ last.num = <<11863283, 23>>
    /\ Sq32(last.num) = <<16777215, 23>>

\* C8: ApplyMatrix4(M) leaves in start the transform of the old start and in
\* end the transform of the old end, returns its receiver, and with M the
\* identity leaves both endpoints as they were.
C8_ApplyMatrix4 ==
    last.op = "ApplyMatrix4" =>
        /\ mem[StartOf(last.recv)] = VecApplyMatrix4(PreStart, last.mat)
        /\ mem[EndOf(last.recv)] = VecApplyMatrix4(PreEnd, last.mat)
        /\ last.obj = last.recv
        /\ last.mat = Identity => SameLine(last.recv)

C8_Witness ==
    /\ last.op = "ApplyMatrix4"
    /\ last.mat # Identity
    /\ PreStart # PreEnd
    /\ ~Same(StartOf(last.recv))
    /\ ~Same(EndOf(last.recv))
    /\ mem[StartOf(last.recv)] # mem[EndOf(last.recv)]

\* C9: ReadVertices gives the callback the value of start and then, only if
\* that call returned false, the value of end; whatever the callback stores
\* in the vector it is given, the heap is afterwards as it was.
C9_ReadVertices ==
    last.op = "ReadVertices" =>
        /\ mem = last.pre
        /\ last.calls = IF last.cb.stop[1]
                        THEN <<StartOf(last.recv)>>
                        ELSE <<StartOf(last.recv), EndOf(last.recv)>>
        /\ last.seen = IF last.cb.stop[1] THEN <<PreStart>> ELSE <<PreStart, PreEnd>>

C9_Witness ==
    /\ last.op = "ReadVertices"
    /\ ~last.cb.stop[1]
    /\ last.cb.wr[1] # <<>>
    /\ last.cb.wr[1][1] # PreStart
    /\ last.cb.wr[2][1] # PreEnd
    /\ Len(last.calls) = 2

\* C10: Set and NewLine3 copy the arguments given: afterwards start is the
\* value the first argument had when the call began and end the value the
\* second had, also when the arguments are the line's own End() and Start();
\* an endpoint omitted at construction is (0, 0, 0); a later store to a
\* vector of the caller leaves the lines as they were.
C10_SetByValue ==
    /\ last.op \in {"Set", "NewLine3"} =>
          /\ last.a1 # NIL => mem[StartOf(last.recv)] = last.pre[last.a1]
          /\ last.a2 # NIL => mem[EndOf(last.recv)] = last.pre[last.a2]
    /\ last.op = "NewLine3" =>
          /\ last.a1 = NIL => mem[StartOf(last.recv)] = VZero
          /\ last.a2 = NIL => mem[EndOf(last.recv)] = VZero
    /\ (last.op = "Write" /\ last.a1 \in {"u", "v"}) =>
          \A hd \in Handles : SameLine(Obj(hd))
====
